---- MODULE Spec2Model ----
(***************************************************************************)
(* Model of profiles_api/models.py: the UserProfile record, its manager's  *)
(* two factory operations (create_user, create_superuser) and the record's *)
(* read accessors, run by concurrent callers against one shared table     *)
(* whose email column is unique.                                           *)
(*                                                                         *)
(* Strings that the code inspects (emails, passwords, hashes) are          *)
(* sequences of one-character strings; names are plain strings.            *)
(***************************************************************************)
EXTENDS Integers, Sequences, FiniteSets, TLC

\* Number of factory calls started in one behaviour.
MaxCalls == 2

\* Concurrent callers (request workers).
Procs == {1, 2}

\* Python's None, as a value comparable with the character sequences.
None == <<"None">>

\* Input emails: absent, empty, upper-case domain, upper-case local part
\* with lower-case domain, surrounding whitespace, no "@" at all.
Emails ==
    { None,
      <<>>,
      <<"a", "@", "B">>,
      <<"A", "@", "b">>,
      <<" ", "a", "@", "B">>,
      <<"a", "B">> }

Names == {"Ann Lee", "Bo"}

\* Input passwords: absent (the default of create_user) or a plaintext.
Passwords == {None, <<"p">>}

\* Candidate passwords tried against a stored credential.
Candidates == {None, <<>>, <<"p">>, <<"q">>, <<"!">>, <<"N", "o", "n", "e">>}

VARIABLES
    db,        \* the persisted rows of the UserProfile table
    nextPk,    \* the table's auto-increment primary key
    pc,        \* pc[p]: where caller p stands in its call
    call,      \* call[p]: the operation and arguments of p's call
    user,      \* user[p]: the in-memory UserProfile object p works on
    outcome,   \* outcome[p]: "none", "returned", or the exception raised
    ret,       \* ret[p]: what the accessors returned to p
    saves,     \* saves[p]: save() attempts made by p's call
    ncalls,    \* factory calls started so far
    inserted   \* history: every row as first inserted, with its plaintext

vars == <<db, nextPk, pc, call, user, outcome, ret, saves, ncalls, inserted>>

----
\* The guard written as `email is None`: an empty string passes it.
IsNone(s) == s = None

\* Python truthiness of an optional string: `not email`.
IsFalsy(s) == s = None \/ s = <<>>

Whitespace == {" "}

Lower(c) ==
    CASE c = "A" -> "a"
      [] c = "B" -> "b"
      [] OTHER -> c

\* str.lower()
LowerStr(s) == [i \in 1..Len(s) |-> Lower(s[i])]

RECURSIVE LStrip(_)
LStrip(s) ==
    IF s # <<>> /\ Head(s) \in Whitespace THEN LStrip(Tail(s)) ELSE s

RECURSIVE RStrip(_)
RStrip(s) ==
    IF s # <<>> /\ s[Len(s)] \in Whitespace
    THEN RStrip(SubSeq(s, 1, Len(s) - 1))
    ELSE s

\* str.strip()
Strip(s) == RStrip(LStrip(s))

\* Index of the last "@" of s, 0 when there is none (str.rsplit("@", 1)).
LastAt(s) ==
    LET at == {i \in 1..Len(s) : s[i] = "@"}
    IN  IF at = {} THEN 0 ELSE CHOOSE i \in at : \A j \in at : j <= i

\* The whole address lower-cased (email.lower()) instead of its domain.
normalize_email_lower_all(email) ==
    IF IsNone(email) THEN <<>> ELSE LowerStr(email)

\* BaseUserManager.normalize_email: strip, split at the last "@", lower-case
\* the domain; an email without "@" is returned as it came.
normalize_email(email) ==
    LET e == IF IsFalsy(email) THEN <<>> ELSE email
        s == Strip(e)
        i == LastAt(s)
    IN  IF i = 0
        THEN e
        ELSE SubSeq(s, 1, i - 1) \o <<"@">> \o LowerStr(SubSeq(s, i + 1, Len(s)))

----
\* Credential hashing (django.contrib.auth.hashers), as set_password uses it.
\* The digest of a plaintext is the plaintext behind the algorithm tag: an
\* injective stand-in for the salted hash.  An absent password yields the
\* unusable marker "!".
HashTag == "pbkdf2_sha256$"

UnusablePrefix == "!"

\* An absent password hashed as the empty string.
make_password_none_as_empty(raw) ==
    <<HashTag>> \o (IF raw = None THEN <<>> ELSE raw)

make_password(raw) ==
    IF raw = None THEN <<UnusablePrefix>> ELSE <<HashTag>> \o raw

is_password_usable(encoded) ==
    encoded = None \/ encoded = <<>> \/ Head(encoded) # UnusablePrefix

\* check_password: no candidate matches an unusable or unrecognised
\* credential; otherwise the candidate is hashed and compared.
check_password(candidate, encoded) ==
    /\ candidate # None
    /\ encoded # None
    /\ is_password_usable(encoded)
    /\ encoded # <<>>
    /\ Head(encoded) = HashTag
    /\ make_password(candidate) = encoded

\* Direct assignment: user.password = password.
set_password_raw(u, raw) == [u EXCEPT !.password = raw]

\* AbstractBaseUser.set_password(raw_password)
set_password(u, raw) == [u EXCEPT !.password = make_password(raw)]

\* self.model(email=email, name=name): the field defaults of UserProfile,
\* PermissionsMixin.is_superuser included; pk 0 is an unsaved object.
UserProfile(email, name) ==
    [ pk           |-> 0,
      email        |-> email,
      name         |-> name,
      password     |-> <<>>,
      is_active    |-> TRUE,
      is_staff     |-> FALSE,
      is_superuser |-> FALSE ]

\* The accessors of UserProfile.
get_full_name(u) == u.name

\* A short name computed as the first word of the name.
get_short_name_first_word(u) ==
    IF u.name = "Ann Lee" THEN "Ann" ELSE u.name

get_short_name(u) == u.name

str(u) == u.email

\* Lines 52-53 of create_superuser.
SuperuserFlags(u) == [u EXCEPT !.is_superuser = TRUE, !.is_staff = TRUE]

----
NoCall == [op |-> "none"]

NoUser == [pk |-> -1]

NoRet == [full |-> "", short |-> "", str |-> <<>>]

Factories == {"create_user", "create_superuser"}

Init ==
    /\ db = {}
    /\ nextPk = 1
    /\ pc = [p \in Procs |-> "idle"]
    /\ call = [p \in Procs |-> NoCall]
    /\ user = [p \in Procs |-> NoUser]
    /\ outcome = [p \in Procs |-> "none"]
    /\ ret = [p \in Procs |-> NoRet]
    /\ saves = [p \in Procs |-> 0]
    /\ ncalls = 0
    /\ inserted = {}

\* An exception leaves the call: nothing in this module catches it.
Raise(p, exc) ==
    /\ pc' = [pc EXCEPT ![p] = "done"]
    /\ outcome' = [outcome EXCEPT ![p] = exc]

\* The email column declared without unique=True.
UniqueViolation_absent(u) == FALSE

\* The unique=True constraint of UserProfile.email, as the table enforces it.
UniqueViolation(u) ==
    \E row \in db : row.pk # u.pk /\ row.email = u.email

\* A save keyed by email (update_or_create): the last writer replaces the
\* row that holds the email.
Save_last_writer_wins(p, thenPc, thenOutcome) ==
    /\ saves' = [saves EXCEPT ![p] = @ + 1]
    /\ LET insert == user[p].pk = 0
           pk  == IF insert THEN nextPk ELSE user[p].pk
           row == [user[p] EXCEPT !.pk = pk]
       IN  /\ db' = {r \in db : r.pk # pk /\ r.email # row.email} \cup {row}
           /\ nextPk' = IF insert THEN nextPk + 1 ELSE nextPk
           /\ user' = [user EXCEPT ![p] = row]
           /\ inserted' =
                IF insert
                THEN inserted \cup
                       {[row |-> row, plaintext |-> call[p].password]}
                ELSE inserted
           /\ pc' = [pc EXCEPT ![p] = thenPc]
           /\ outcome' = [outcome EXCEPT ![p] = thenOutcome]

\* Model.save(): INSERT for an object without pk, UPDATE of the row with
\* the object's pk otherwise; every statement commits on its own
\* (autocommit).  The storage may be unavailable, and it rejects a row
\* whose email another row holds.
Save(p, thenPc, thenOutcome) ==
    /\ saves' = [saves EXCEPT ![p] = @ + 1]
    /\ \E available \in BOOLEAN :
         IF ~available
         THEN /\ Raise(p, "OperationalError")
              /\ UNCHANGED <<db, nextPk, user, inserted>>
         ELSE IF UniqueViolation(user[p])
         THEN /\ Raise(p, "IntegrityError")
              /\ UNCHANGED <<db, nextPk, user, inserted>>
         ELSE LET insert == user[p].pk = 0
                  pk  == IF insert THEN nextPk ELSE user[p].pk
                  row == [user[p] EXCEPT !.pk = pk]
              IN  /\ db' = {r \in db : r.pk # pk} \cup {row}
                  /\ nextPk' = IF insert THEN nextPk + 1 ELSE nextPk
                  /\ user' = [user EXCEPT ![p] = row]
                  /\ inserted' =
                       IF insert
                       THEN inserted \cup
                              {[row |-> row, plaintext |-> call[p].password]}
                       ELSE inserted
                  /\ pc' = [pc EXCEPT ![p] = thenPc]
                  /\ outcome' = [outcome EXCEPT ![p] = thenOutcome]

\* create_user, lines 27-33, entered directly or from create_superuser
\* (line 50): validate, normalize, construct, hash.
CreateUser(p) ==
    /\ pc[p] = "idle"
    /\ ncalls < MaxCalls
    /\ \E op \in Factories, email \in Emails, name \in Names,
          password \in Passwords :
         /\ call' = [call EXCEPT ![p] =
                       [op |-> op, email |-> email, name |-> name,
                        password |-> password]]
         /\ IF IsFalsy(email)
            THEN /\ Raise(p, "ValueError")
                 /\ UNCHANGED user
            ELSE /\ user' = [user EXCEPT ![p] =
                               set_password(
                                 UserProfile(normalize_email(email), name),
                                 password)]
                 /\ pc' = [pc EXCEPT ![p] = "save_user"]
                 /\ UNCHANGED outcome
    /\ ncalls' = ncalls + 1
    /\ UNCHANGED <<db, nextPk, ret, saves, inserted>>

\* create_user, lines 34-36: save, and return to the caller or to
\* create_superuser.
SaveUser(p) ==
    /\ pc[p] = "save_user"
    /\ IF call[p].op = "create_user"
       THEN Save(p, "done", "returned")
       ELSE Save(p, "set_flags", "none")
    /\ UNCHANGED <<call, ret, ncalls>>

\* create_superuser saving after each assignment: is_superuser reaches the
\* table before is_staff is set.
SetFlags_save_each(p) ==
    /\ pc[p] = "set_flags"
    /\ LET half == [user[p] EXCEPT !.is_superuser = TRUE]
       IN  db' = {r \in db : r.pk # half.pk} \cup {half}
    /\ user' = [user EXCEPT ![p] = SuperuserFlags(user[p])]
    /\ pc' = [pc EXCEPT ![p] = "save_super"]
    /\ UNCHANGED <<nextPk, call, outcome, ret, saves, ncalls, inserted>>

\* create_superuser, lines 52-53.
SetFlags(p) ==
    /\ pc[p] = "set_flags"
    /\ user' = [user EXCEPT ![p] = SuperuserFlags(user[p])]
    /\ pc' = [pc EXCEPT ![p] = "save_super"]
    /\ UNCHANGED <<db, nextPk, call, outcome, ret, saves, ncalls, inserted>>

\* create_superuser returning without its second save.
SaveSuper_not_saved(p) ==
    /\ pc[p] = "save_super"
    /\ pc' = [pc EXCEPT ![p] = "done"]
    /\ outcome' = [outcome EXCEPT ![p] = "returned"]
    /\ UNCHANGED <<db, nextPk, call, user, ret, saves, ncalls, inserted>>

\* create_superuser, lines 54-56.
SaveSuper(p) ==
    /\ pc[p] = "save_super"
    /\ Save(p, "done", "returned")
    /\ UNCHANGED <<call, ret, ncalls>>

\* A caller loads a persisted record and reads its accessors.
Accessors(p) ==
    /\ pc[p] = "idle"
    /\ \E row \in db :
         /\ user' = [user EXCEPT ![p] = row]
         /\ ret' = [ret EXCEPT ![p] =
                      [full  |-> get_full_name(row),
                       short |-> get_short_name(row),
                       str   |-> str(row)]]
    /\ call' = [call EXCEPT ![p] = [op |-> "accessors"]]
    /\ pc' = [pc EXCEPT ![p] = "done"]
    /\ outcome' = [outcome EXCEPT ![p] = "returned"]
    /\ UNCHANGED <<db, nextPk, saves, ncalls, inserted>>

\* The caller takes the result or the exception and is free again.
Return(p) ==
    /\ pc[p] = "done"
    /\ pc' = [pc EXCEPT ![p] = "idle"]
    /\ call' = [call EXCEPT ![p] = NoCall]
    /\ user' = [user EXCEPT ![p] = NoUser]
    /\ outcome' = [outcome EXCEPT ![p] = "none"]
    /\ ret' = [ret EXCEPT ![p] = NoRet]
    /\ saves' = [saves EXCEPT ![p] = 0]
    /\ UNCHANGED <<db, nextPk, ncalls, inserted>>

Next ==
    \E p \in Procs :
        \/ CreateUser(p)
        \/ SaveUser(p)
        \/ SetFlags(p)
        \/ SaveSuper(p)
        \/ Accessors(p)
        \/ Return(p)

Spec == Init /\ [][Next]_vars

----
\* Properties of the factory operations and accessors.

Finished(p, op) == pc[p] = "done" /\ call[p].op = op

InFactory(p) == call[p].op \in Factories

\* The persisted rows of p's call: those with the pk of p's object.
RowsOf(p) == {r \in db : r.pk = user[p].pk}

\* C1 as stated: a factory call with an empty or absent email fails with
\* ValidationError, having attempted no save.
C1_EmptyEmailRaisesValidationError ==
    \A p \in Procs :
        (pc[p] = "done" /\ InFactory(p) /\ IsFalsy(call[p].email))
            => (outcome[p] = "ValidationError" /\ saves[p] = 0)

\* C1 amended: for create_user and create_superuser alike, a call whose
\* email is the empty string or None ends at once with ValueError; the step
\* leaves the persisted rows and the key counter as they were and attempts
\* no save.
C1_EmptyEmailRaisesValueError ==
    [][\A p \in Procs :
         (pc[p] = "idle" /\ pc'[p] # "idle" /\ call'[p].op \in Factories
            /\ (call'[p].email = <<>> \/ call'[p].email = None))
         => /\ pc'[p] = "done"
            /\ outcome'[p] = "ValueError"
            /\ saves'[p] = 0
            /\ db' = db
            /\ nextPk' = nextPk
            /\ inserted' = inserted]_vars

\* A create_superuser call with an empty email has failed while a record
\* of an earlier call is persisted.
C1_Witness ==
    \E p \in Procs :
        /\ Finished(p, "create_superuser")
        /\ call[p].email = <<>>
        /\ outcome[p] = "ValueError"
        /\ db # {}

\* r is the address e normalized: e without its surrounding whitespace,
\* every character up to and including the last "@" as given, every
\* character after it lower-cased; an e without "@" as given.
IsNormalizedFormOf(r, e) ==
    LET s == Strip(e)
    IN  IF \A i \in 1..Len(s) : s[i] # "@"
        THEN r = e
        ELSE \E k \in 1..Len(s) :
               /\ s[k] = "@"
               /\ \A j \in (k + 1)..Len(s) : s[j] # "@"
               /\ Len(r) = Len(s)
               /\ \A i \in 1..k : r[i] = s[i]
               /\ \A i \in (k + 1)..Len(s) : r[i] = Lower(s[i])

\* C2: a create_user call with non-empty email, name and password that
\* returns, returns a record with the normalized email (domain lower-cased,
\* local part as given), the given name, is_active set, is_staff and
\* is_superuser clear; the persisted row is equal to it.
C2_CreateUserResult ==
    \A p \in Procs :
        (Finished(p, "create_user") /\ outcome[p] = "returned"
           /\ call[p].password # None /\ call[p].password # <<>>
           /\ call[p].name # "")
        => /\ IsNormalizedFormOf(user[p].email, call[p].email)
           /\ user[p].name = call[p].name
           /\ user[p].is_active
           /\ ~user[p].is_staff
           /\ ~user[p].is_superuser
           /\ user[p].pk > 0
           /\ RowsOf(p) = {user[p]}

\* create_user("a@B", ...) returned a record with email "a@b" while
\* create_user("A@b", ...) returned one with email "A@b".
C2_Witness ==
    \E p, q \in Procs :
        /\ Finished(p, "create_user") /\ outcome[p] = "returned"
        /\ call[p].email = <<"a", "@", "B">>
        /\ call[p].password = <<"p">>
        /\ user[p].email = <<"a", "@", "b">>
        /\ Finished(q, "create_user") /\ outcome[q] = "returned"
        /\ call[q].password = <<"p">>
        /\ user[q].email = <<"A", "@", "b">>

\* C3: a create_superuser call that returns, returns an object with
\* is_staff and is_superuser set, and the persisted row of that object has
\* both set.
C3_SuperuserFlags ==
    \A p \in Procs :
        (Finished(p, "create_superuser") /\ outcome[p] = "returned")
        => /\ user[p].is_staff
           /\ user[p].is_superuser
           /\ RowsOf(p) # {}
           /\ \A r \in RowsOf(p) : r.is_staff /\ r.is_superuser

C3_Witness ==
    \E p \in Procs :
        /\ Finished(p, "create_superuser")
        /\ outcome[p] = "returned"
        /\ saves[p] = 2
        /\ \E r \in db : r.pk = user[p].pk /\ r.is_superuser

\* C4: no two persisted rows hold the same normalized email; of the factory
\* calls working on one normalized email at most one owns a row; a row,
\* once inserted, keeps its email, name and credential; and a call that the
\* uniqueness constraint rejected ends with the storage's IntegrityError,
\* owns no row, and finds the email held by another call's row.
C4_UniqueEmail ==
    /\ \A r1, r2 \in db :
         (normalize_email(r1.email) = normalize_email(r2.email)
            \/ r1.pk = r2.pk) => r1 = r2
    /\ \A p, q \in Procs :
         (InFactory(p) /\ InFactory(q) /\ user[p].pk > 0 /\ user[q].pk > 0
            /\ user[p].email = user[q].email) => p = q
    /\ \A g \in inserted :
         \E r \in db :
            /\ r.pk = g.row.pk
            /\ r.email = g.row.email
            /\ r.name = g.row.name
            /\ r.password = g.row.password
    /\ \A p \in Procs :
         (InFactory(p) /\ outcome[p] = "IntegrityError")
         => /\ pc[p] = "done"
            /\ user[p].pk = 0
            /\ \E r \in db : r.email = user[p].email
    /\ \A p \in Procs :
         (InFactory(p) /\ pc[p] = "done" /\ user[p] # NoUser
            /\ user[p].pk = 0)
         => outcome[p] \in {"IntegrityError", "OperationalError"}

\* Two concurrent calls with different raw emails that normalize to one
\* value: one holds the row, the other was rejected.
C4_Witness ==
    \E p, q \in Procs :
        /\ p # q
        /\ InFactory(p) /\ InFactory(q)
        /\ outcome[p] = "IntegrityError"
        /\ user[q].pk > 0
        /\ call[p].email # call[q].email
        /\ call[p].name # call[q].name
        /\ user[p].email = user[q].email
        /\ \E r \in db : r.pk = user[q].pk /\ r.name = call[q].name

\* C5: when a factory call has ended, its record is persisted in its final
\* form (privileged for create_superuser, non-privileged for create_user)
\* or no record of the call is persisted.
C5_AllOrNothing ==
    \A p \in Procs :
        (pc[p] = "done" /\ InFactory(p))
        => \/ RowsOf(p) = {}
           \/ \A r \in RowsOf(p) :
                IF call[p].op = "create_superuser"
                THEN r.is_staff /\ r.is_superuser
                ELSE ~r.is_staff /\ ~r.is_superuser

\* C6: every persisted row was inserted by a call, and its stored
\* credential differs from the plaintext password of that call.
C6_NoPlaintextCredential ==
    \A r \in db :
        /\ \E g \in inserted : g.row.pk = r.pk
        /\ \A g \in inserted :
             g.row.pk = r.pk => r.password # g.plaintext

C6_Witness ==
    \E r \in db, g \in inserted :
        /\ g.row.pk = r.pk
        /\ g.plaintext = <<"p">>
        /\ r.password = <<HashTag, "p">>
        /\ r.is_superuser

\* C7: reading the accessors of a persisted record returns its name as
\* full name and as short name and its email as string representation, and
\* the step changes neither the table nor the record read.
C7_AccessorsPure ==
    [][\A p \in Procs :
         (pc[p] = "idle" /\ call'[p].op = "accessors")
         => /\ user'[p] \in db
            /\ ret'[p].full = user'[p].name
            /\ ret'[p].short = user'[p].name
            /\ ret'[p].str = user'[p].email
            /\ db' = db
            /\ nextPk' = nextPk]_vars

C7_Witness ==
    \E p \in Procs :
        /\ Finished(p, "accessors")
        /\ ret[p].full = "Ann Lee"
        /\ ret[p].short = "Ann Lee"
        /\ ret[p].str = <<"a", "@", "b">>

\* C8: in every persisted row is_superuser and is_staff are equal.
C8_FlagsTogether ==
    \A r \in db : r.is_superuser <=> r.is_staff

\* A privileged row and a row of a create_superuser call between its two
\* saves are persisted together.
C8_Witness ==
    \E r \in db, p \in Procs :
        /\ r.is_superuser /\ r.is_staff
        /\ pc[p] = "save_super"
        /\ user[p].is_superuser
        /\ \E r2 \in db : r2.pk = user[p].pk /\ ~r2.is_superuser

\* C9: the step by which create_user succeeds adds exactly one row, the
\* returned one, and keeps every row persisted before it as it was.
C9_OneNewRecord ==
    [][\A p \in Procs :
         (pc[p] = "save_user" /\ call[p].op = "create_user"
            /\ outcome'[p] = "returned")
         => /\ db \subseteq db'
            /\ Cardinality(db') = Cardinality(db) + 1
            /\ db' \ db = {user'[p]}]_vars

C9_Witness ==
    \E p \in Procs :
        /\ Finished(p, "create_user")
        /\ outcome[p] = "returned"
        /\ Cardinality(db) = 2
        /\ user[p].pk = 2

\* C10: create_user with a non-empty email and no password is not refused
\* by the factory (only the storage can fail it); when it returns, its row
\* is persisted active and non-privileged, and no candidate password
\* authenticates against the row's credential.
C10_NoPasswordNoLogin ==
    \A p \in Procs :
        (Finished(p, "create_user") /\ ~IsFalsy(call[p].email)
           /\ call[p].password = None)
        => /\ outcome[p] \in {"returned", "IntegrityError", "OperationalError"}
           /\ outcome[p] = "returned"
                => /\ RowsOf(p) # {}
                   /\ \A r \in RowsOf(p) :
                        /\ r.is_active
                        /\ ~r.is_staff
                        /\ ~r.is_superuser
                        /\ \A c \in Candidates :
                             ~check_password(c, r.password)

C10_Witness ==
    \E p \in Procs :
        /\ Finished(p, "create_user")
        /\ call[p].password = None
        /\ outcome[p] = "returned"
        /\ \E r \in db : r.pk = user[p].pk /\ r.password = <<UnusablePrefix>>

====
